---- MODULE Spec2Model ----
(***************************************************************************)
(* A model of the two Flask applications of the repository:               *)
(*   src/labeler_app/app.py    the image labeling assistant                *)
(*   src/generator_app/app.py  the placeholder generator / data preparer   *)
(*                                                                         *)
(* Python strings are TLA+ strings (TLC evaluates Len, \o and SubSeq on    *)
(* them); a list is a sequence, a dict is a function (its insertion order  *)
(* is not modelled), a pathlib.Path is the string of its path relative to  *)
(* the directory an archive was extracted into.                            *)
(***************************************************************************)
EXTENDS Integers, Sequences, FiniteSets, TLC

VARIABLES
    APP_STATE,       \* labeler: the module-level dict, src/labeler_app/app.py:19
    labels_dir,      \* labeler: DATA_DIR / "labels": file stem -> mapping written
    flashed,         \* labeler: category of the message the last request flashed
                     \*          ("500": it ended in an uncaught exception)
    walk,            \* history: selections of the label requests accepted since
                     \*          the last dataset load, in order
    manual_writes,   \* history: writes of manual-labels.json since the last load
    threads,         \* labeler: per server thread, the request it is handling and
                     \*          where in its handler it is
    overlapped,      \* history: two labeler requests were in flight at once
    matcher,         \* inputs and result of a direct call of _auto_label
    importer,        \* inputs and results of direct calls of the archive importers
    seeder,          \* input and result of a direct call of the image synthesis
    LAST_GENERATED,  \* generator: the module-level dict, src/generator_app/app.py:20
    utcnow,          \* generator: the UTC second datetime.utcnow() falls in
    training_runs,   \* generator: DATA_DIR: run directory name -> its contents
    gen_flashed,     \* generator: category of the message the last request flashed
    served,          \* generator: the archive the last download request was sent
    generated,       \* history: the generate requests that made an image, in order
    submissions,     \* history: the train requests that prepared a run, in order
    train_form       \* history: the form fields of the last train request

thread_vars == <<threads, overlapped>>

labeler_vars == <<APP_STATE, labels_dir, flashed, walk, manual_writes, thread_vars>>

generator_vars ==
    <<LAST_GENERATED, utcnow, training_runs, gen_flashed, served, generated, submissions,
      train_form>>

call_vars == <<matcher, importer, seeder>>

vars == <<labeler_vars, call_vars, generator_vars>>

(***************************************************************************)
(* Bounds of the model.                                                    *)
(***************************************************************************)
\* Most members of one uploaded archive.
MaxArchive == 2

(***************************************************************************)
(* Python helpers.                                                         *)
(***************************************************************************)
Char(s, i) == SubSeq(s, i, i)

Range(seq) == {seq[i] : i \in 1..Len(seq)}

\* str.lower() of one ASCII character.
lower_char(c) ==
    CASE c = "A" -> "a" [] c = "B" -> "b" [] c = "C" -> "c" [] c = "D" -> "d"
      [] c = "E" -> "e" [] c = "F" -> "f" [] c = "G" -> "g" [] c = "H" -> "h"
      [] c = "I" -> "i" [] c = "J" -> "j" [] c = "K" -> "k" [] c = "L" -> "l"
      [] c = "M" -> "m" [] c = "N" -> "n" [] c = "O" -> "o" [] c = "P" -> "p"
      [] c = "Q" -> "q" [] c = "R" -> "r" [] c = "S" -> "s" [] c = "T" -> "t"
      [] c = "U" -> "u" [] c = "V" -> "v" [] c = "W" -> "w" [] c = "X" -> "x"
      [] c = "Y" -> "y" [] c = "Z" -> "z"
      [] OTHER -> c

\* Variant: the comparison without .lower().
lower_forgotten(s) == s

RECURSIVE lower_chars(_)
lower_chars(s) == IF s = "" THEN ""
                  ELSE lower_char(Char(s, 1)) \o lower_chars(SubSeq(s, 2, Len(s)))

lower(s) == lower_chars(s)

\* needle in hay, for two str: a scan of the start positions, left to right.
RECURSIVE str_in_from(_, _, _)
str_in_from(needle, hay, i) ==
    IF i + Len(needle) - 1 > Len(hay) THEN FALSE
    ELSE IF SubSeq(hay, i, i + Len(needle) - 1) = needle THEN TRUE
    ELSE str_in_from(needle, hay, i + 1)

str_in(needle, hay) == str_in_from(needle, hay, 1)

\* str.strip(): whitespace off both ends.
RECURSIVE lstrip(_)
lstrip(s) == IF s # "" /\ Char(s, 1) = " " THEN lstrip(SubSeq(s, 2, Len(s))) ELSE s

RECURSIVE rstrip(_)
rstrip(s) == IF s # "" /\ Char(s, Len(s)) = " "
             THEN rstrip(SubSeq(s, 1, Len(s) - 1)) ELSE s

strip(s) == rstrip(lstrip(s))

\* The least position of character c in s at or after i, or 0.
RECURSIVE find_char(_, _, _)
find_char(s, c, i) ==
    IF i > Len(s) THEN 0
    ELSE IF Char(s, i) = c THEN i ELSE find_char(s, c, i + 1)

\* The greatest position of character c in s, or 0.
RECURSIVE rfind_char(_, _, _)
rfind_char(s, c, i) ==
    IF i < 1 THEN 0
    ELSE IF Char(s, i) = c THEN i ELSE rfind_char(s, c, i - 1)

\* str.split(","): always at least one piece.
RECURSIVE split_comma(_)
split_comma(s) ==
    LET i == find_char(s, ",", 1)
    IN  IF i = 0 THEN <<s>>
        ELSE <<SubSeq(s, 1, i - 1)>> \o split_comma(SubSeq(s, i + 1, Len(s)))

\* A dict and its item assignment d[k] = v.
EmptyDict == [k \in {} |-> <<>>]

DictSet(d, k, v) == [x \in (DOMAIN d) \cup {k} |-> IF x = k THEN v ELSE d[x]]

\* pathlib: PurePath.name (the last component) and PurePath.suffix.
path_name(p) == SubSeq(p, rfind_char(p, "/", Len(p)) + 1, Len(p))

path_suffix(p) ==
    LET name == path_name(p)
        i    == rfind_char(name, ".", Len(name))
    IN  IF 1 < i /\ i < Len(name) THEN SubSeq(name, i, Len(name)) ELSE ""

(***************************************************************************)
(* Inputs of the labeler's requests.                                       *)
(***************************************************************************)
\* Paths of the members an uploaded archive may hold, in the order rglob lists
\* them after extraction.
ArchiveMembers == <<"cat.png", "sub/cat.png", "Dog.JPG", "readme.txt">>

\* The subsequences of a list.
RECURSIVE SubLists(_)
SubLists(seq) ==
    IF seq = <<>> THEN {<<>>}
    ELSE LET rest == SubLists(Tail(seq))
         IN  rest \cup {<<Head(seq)>> \o r : r \in rest}

\* The archives: at most MaxArchive of the members.
Archives == {m \in SubLists(ArchiveMembers) : Len(m) <= MaxArchive}

\* request.files.get("dataset"): no file part, a part with no file chosen, a file
\* that is no ZIP archive, or a ZIP archive.
Uploads ==
    {[present |-> FALSE, filename |-> "", is_zip |-> FALSE, members |-> <<>>],
     [present |-> TRUE, filename |-> "", is_zip |-> FALSE, members |-> <<>>],
     [present |-> TRUE, filename |-> "d.zip", is_zip |-> FALSE, members |-> <<>>]}
    \cup {[present |-> TRUE, filename |-> "d.zip", is_zip |-> TRUE, members |-> m] :
            m \in Archives}

\* request.form.get("keywords", "").
KeywordTexts == {"", "cat", " Dog,,cat"}

(***************************************************************************)
(* src/labeler_app/app.py                                                  *)
(***************************************************************************)
SUPPORTED_IMAGE_TYPES == {".png", ".jpg", ".jpeg", ".bmp", ".gif"}

\* The names the module's import statements bind.
labeler_imports ==
    {"base64", "json", "os", "zipfile", "Path", "Dict", "List", "Tuple", "Flask",
     "flash", "redirect", "render_template_string", "request", "url_for"}

\* The proper ancestors of a relative path, outermost first.
RECURSIVE parents(_)
parents(p) ==
    LET i == rfind_char(p, "/", Len(p))
    IN  IF i = 0 THEN <<>>
        ELSE parents(SubSeq(p, 1, i - 1)) \o <<SubSeq(p, 1, i - 1)>>

RECURSIVE append_new(_, _)
append_new(listing, ps) ==
    IF ps = <<>> THEN listing
    ELSE append_new(IF Head(ps) \in Range(listing) THEN listing
                    ELSE Append(listing, Head(ps)), Tail(ps))

\* temp_dir.rglob("*") after upload.save and extractall: the saved upload itself,
\* then every extracted member with the directories above it.
RECURSIVE rglob(_, _)
rglob(listing, members) ==
    IF members = <<>> THEN listing
    ELSE rglob(append_new(listing, parents(Head(members)) \o <<Head(members)>>),
               Tail(members))

RECURSIVE collect_images(_)
collect_images(listing) ==
    IF listing = <<>> THEN <<>>
    ELSE (IF lower(path_suffix(Head(listing))) \in SUPPORTED_IMAGE_TYPES
          THEN <<<<path_name(Head(listing)), Head(listing)>>>> ELSE <<>>)
         \o collect_images(Tail(listing))

\* Variant: an upload that is no ZIP archive gives an empty list instead of raising.
_load_images_swallowing_bad_zip(upload, names) ==
    IF "tempfile" \notin names
    THEN [raised |-> "NameError", images |-> <<>>]
    ELSE [raised |-> "",
          images |-> IF upload.is_zip
                     THEN collect_images(rglob(<<upload.filename>>, upload.members))
                     ELSE <<>>]

\* What the call raises ("" when it returns) and the list it returns. `names` are
\* the global names bound in the module: line 28 looks up tempfile.
_load_images_from_upload(upload, names) ==
    IF "tempfile" \notin names
    THEN [raised |-> "NameError", images |-> <<>>]
    ELSE IF ~upload.is_zip
    THEN [raised |-> "BadZipFile", images |-> <<>>]
    ELSE [raised |-> "",
          images |-> collect_images(rglob(<<upload.filename>>, upload.members))]

\* Variant: the mapping merged into the file that is there already.
_save_labels_merged(dir, name, labels) ==
    DictSet(dir, name,
            IF name \in DOMAIN dir
            THEN [k \in DOMAIN dir[name] \cup DOMAIN labels |->
                     IF k \in DOMAIN labels THEN labels[k] ELSE dir[name][k]]
            ELSE labels)

\* output_path.write_text(json.dumps(labels)): the file holds the JSON object of
\* the mapping, one member per key.
_save_labels(dir, name, labels) == DictSet(dir, name, labels)

RECURSIVE _auto_label_loop(_, _, _)
_auto_label_loop(images, keywords, labels) ==
    IF images = <<>> THEN labels
    ELSE LET filename == Head(images)[1]
             matched  == SelectSeq(keywords,
                                   LAMBDA kw : str_in(lower(kw), lower(filename)))
         IN  _auto_label_loop(Tail(images), keywords,
                              DictSet(labels, filename, matched))

\* Variant: no entries at all when there are no keywords.
_auto_label_empty_without_keywords(images, keywords) ==
    IF keywords = <<>> THEN EmptyDict
    ELSE _auto_label_loop(images, keywords, EmptyDict)

_auto_label(images, keywords) == _auto_label_loop(images, keywords, EmptyDict)

\* Variants: a reset that leaves the cursor, and one that leaves the mapping.
reset_keeps_cursor(state) == [state EXCEPT !.manual_labels = EmptyDict]

reset_keeps_labels(state) == [state EXCEPT !.label_index = 0]

\* The new APP_STATE.
reset_manual_labels(state) ==
    [state EXCEPT !.manual_labels = EmptyDict, !.label_index = 0]

\* The outcome of the call of line 70 for each upload, in the module as written
\* and in one that also binds tempfile.
loaded_as_written ==
    [upload \in Uploads |-> _load_images_from_upload(upload, labeler_imports)]

loaded_with_tempfile ==
    [upload \in Uploads |->
        _load_images_from_upload(upload, labeler_imports \cup {"tempfile"})]

\* POST /upload-dataset with one upload, given the outcomes of
\* _load_images_from_upload.
upload_dataset_request(load, upload) ==
        /\ IF ~upload.present \/ upload.filename = ""
           THEN /\ flashed' = "error"
                /\ UNCHANGED <<APP_STATE, walk, manual_writes>>
           ELSE LET loaded == load[upload]
                IN  CASE loaded.raised = "BadZipFile" ->
                           /\ flashed' = "error"
                           /\ UNCHANGED <<APP_STATE, walk, manual_writes>>
                      [] loaded.raised = "NameError" ->
                           \* not caught: the request ends as a 500 response
                           /\ flashed' = "500"
                           /\ UNCHANGED <<APP_STATE, walk, manual_writes>>
                      [] OTHER ->
                           /\ APP_STATE' = reset_manual_labels(
                                  [APP_STATE EXCEPT !.images = loaded.images])
                           /\ flashed' = "success"
                           /\ walk' = <<>>
                           /\ manual_writes' = 0
        /\ UNCHANGED <<labels_dir, thread_vars, call_vars, generator_vars>>

\* POST /upload-dataset.
upload_dataset_by(load) == \E upload \in Uploads : upload_dataset_request(load, upload)

upload_dataset == upload_dataset_by(loaded_as_written)

RECURSIVE strip_nonempty(_)
strip_nonempty(pieces) ==
    IF pieces = <<>> THEN <<>>
    ELSE (IF strip(Head(pieces)) # "" THEN <<strip(Head(pieces))>> ELSE <<>>)
         \o strip_nonempty(Tail(pieces))

parse_keywords(keywords_text) == strip_nonempty(split_comma(keywords_text))

\* POST /upload-keywords
upload_keywords ==
    \E keywords_text \in KeywordTexts :
        /\ APP_STATE' = [APP_STATE EXCEPT !.keywords = parse_keywords(keywords_text)]
        /\ flashed' = "success"
        /\ UNCHANGED <<labels_dir, walk, manual_writes, thread_vars, call_vars,
                       generator_vars>>

\* POST /auto-label
auto_label ==
    LET images   == APP_STATE.images
        keywords == APP_STATE.keywords
    IN  /\ IF images = <<>> \/ keywords = <<>>
           THEN /\ flashed' = "error"
                /\ UNCHANGED <<APP_STATE, labels_dir>>
           ELSE LET labels == _auto_label(images, keywords)
                IN  /\ labels_dir' = _save_labels(labels_dir, "auto-labels", labels)
                    /\ flashed' = "success"
                    /\ APP_STATE' = [APP_STATE EXCEPT !.manual_labels = labels]
        /\ UNCHANGED <<walk, manual_writes, thread_vars, call_vars, generator_vars>>

\* Variant: the labels saved after every accepted label request.
save_after_every_label(state) == TRUE

\* Line 123: the walk is over once the advanced cursor reaches the end.
walk_finished(state) == state.label_index >= Len(state.images)

\* POST /label
label_image ==
    LET images   == APP_STATE.images
        keywords == APP_STATE.keywords
        index    == APP_STATE.label_index
    IN  /\ IF images = <<>>
           THEN /\ flashed' = "error"
                /\ UNCHANGED <<APP_STATE, labels_dir, walk, manual_writes>>
           ELSE IF keywords = <<>>
           THEN /\ flashed' = "error"
                /\ UNCHANGED <<APP_STATE, labels_dir, walk, manual_writes>>
           ELSE IF index >= Len(images)
           THEN /\ flashed' = "success"
                /\ UNCHANGED <<APP_STATE, labels_dir, walk, manual_writes>>
           ELSE \E selections \in SubLists(keywords) :  \* the checked boxes of the form
                  LET filename == images[index + 1][1]
                      recorded == DictSet(APP_STATE.manual_labels, filename, selections)
                  IN  /\ APP_STATE' = [APP_STATE EXCEPT !.manual_labels = recorded,
                                                        !.label_index = index + 1]
                      /\ walk' = Append(walk, selections)
                      /\ IF walk_finished(APP_STATE')
                         THEN /\ labels_dir' = _save_labels(labels_dir, "manual-labels",
                                                            recorded)
                              /\ manual_writes' = manual_writes + 1
                              /\ flashed' = "success"
                         ELSE /\ UNCHANGED <<labels_dir, manual_writes>>
                              /\ flashed' = ""
        /\ UNCHANGED <<thread_vars, call_vars, generator_vars>>

\* The threads of the server app.run starts (line 246): one per request in flight.
Threads == {"thread-1", "thread-2"}

Idle == [pc |-> "idle"]

LabelerInit ==
    /\ APP_STATE = [images |-> <<>>, keywords |-> <<>>,
                    manual_labels |-> EmptyDict, label_index |-> 0]
    /\ labels_dir = EmptyDict
    /\ flashed = ""
    /\ walk = <<>>
    /\ manual_writes = 0
    /\ threads = [t \in Threads |-> Idle]
    /\ overlapped = FALSE

(***************************************************************************)
(* Inputs of the generator's requests.                                     *)
(***************************************************************************)
\* Last UTC second of a run; the clock starts in second 0.
MaxClock == 1

\* Most generate requests that make an image, and most train requests that
\* prepare a run, in one run of the model.
MaxGenerated == 3

MaxSubmissions == 2

\* request.form.get("prompt", "").
PromptTexts == {"", "  ", "sunset", " sunset ", "dawn", "A~@"}

\* Members of the images archive and of the keywords archive of a train request.
TrainImageMembers == <<"a.png", "sub/a.jpg", "b.png">>

TrainKeywordMembers == <<"a.txt">>

\* A "descriptions" form field of a train request: none, or one that is no JSON.
DescriptionFields == {<<>>, <<"{bad">>}

\* request.files.get(...) of a train request: as for the labeler's dataset.
TrainUploads(members, name) ==
    {[present |-> FALSE, filename |-> "", is_zip |-> FALSE, members |-> <<>>],
     [present |-> TRUE, filename |-> "", is_zip |-> FALSE, members |-> <<>>],
     [present |-> TRUE, filename |-> name, is_zip |-> FALSE, members |-> <<>>]}
    \cup {[present |-> TRUE, filename |-> name, is_zip |-> TRUE, members |-> m] :
            m \in {a \in SubLists(members) : Len(a) <= MaxArchive}}

(***************************************************************************)
(* src/generator_app/app.py                                                *)
(***************************************************************************)
\* None, and a value that is not None.
None == <<>>

Some(v) == <<v>>

\* ord() of the characters the prompts use.
ord_table ==
    [c \in {" ", "@", "A", "a", "d", "e", "n", "s", "t", "u", "w", "~"} |->
        CASE c = " " -> 32  [] c = "@" -> 64  [] c = "A" -> 65  [] c = "a" -> 97
          [] c = "d" -> 100 [] c = "e" -> 101 [] c = "n" -> 110 [] c = "s" -> 115
          [] c = "t" -> 116 [] c = "u" -> 117 [] c = "w" -> 119 [] c = "~" -> 126]

ord(c) == ord_table[c]

RECURSIVE sum_ord(_)
sum_ord(s) == IF s = "" THEN 0 ELSE ord(Char(s, 1)) + sum_ord(SubSeq(s, 2, Len(s)))

\* Variant: the sum mod 255 as it is, without `or 1`.
or_one_forgotten(x) == x

\* `x or 1` for an int.
or_one(x) == IF x = 0 THEN 1 ELSE x

_seed_from_prompt(prompt) == or_one(sum_ord(prompt) % 255)

\* Variant: the text drawn is taken from the last-generated slot when it is filled.
_generate_placeholder_image_from_slot(prompt) ==
    LET seed == _seed_from_prompt(prompt)
    IN  [size       |-> <<512, 512>>,
         background |-> <<seed, 255 - seed, (seed * 2) % 255>>,
         text       |-> IF LAST_GENERATED.prompt # None THEN LAST_GENERATED.prompt[1]
                        ELSE IF prompt # "" THEN prompt
                        ELSE "Custom Image"]

\* The image drawn: its size, its fill and the text written on it.
_generate_placeholder_image(prompt) ==
    LET seed == _seed_from_prompt(prompt)
    IN  [size       |-> <<512, 512>>,
         background |-> <<seed, 255 - seed, (seed * 2) % 255>>,
         text       |-> IF prompt # "" THEN SubSeq(prompt, 1, IF Len(prompt) < 50
                                                              THEN Len(prompt) ELSE 50)
                        ELSE "Custom Image"]

\* image.save(buffer, format="PNG"): the encoding of the image, a function of its
\* pixels alone.
png_bytes(image) == [format |-> "PNG", pixels |-> image]

\* Variant: the format "%Y%m%d-%H%M", without the seconds.
strftime_minutes(second) == "20240101-0000"

\* datetime.strftime("%Y%m%d-%H%M%S") of an instant in the given second.
strftime(second) == "20240101-00000" \o ToString(second)

\* datetime.isoformat() + "Z", to the second.
isoformat(second) == "2024-01-01T00:00:0" \o ToString(second) \o "Z"

\* Variant: the whole name, suffix included.
path_stem_keeps_suffix(p) == path_name(p)

\* PurePath.stem: the name without its suffix.
path_stem(p) ==
    LET name == path_name(p)
    IN  SubSeq(name, 1, Len(name) - Len(path_suffix(p)))

\* The new contents of output_dir.
_save_training_metadata(run, second, keywords, descriptions) ==
    [run EXCEPT !.metadata = Some([keywords     |-> keywords,
                                   descriptions |-> descriptions,
                                   created_at   |-> isoformat(second)])]

\* What the call raises ("" when it returns) and what rglob lists in the directory
\* it returns.
_extract_upload(upload) ==
    IF ~upload.is_zip
    THEN [raised |-> "BadZipFile", listing |-> <<>>]
    ELSE [raised |-> "", listing |-> rglob(<<upload.filename>>, upload.members)]

_collect_files(listing, allowed_suffixes) ==
    SelectSeq(listing, LAMBDA path : lower(path_suffix(path)) \in allowed_suffixes)

\* path.read_bytes() of an extracted member.
read_bytes(path) == <<"bytes of", path>>

\* POST /generate
generate_image ==
    \E text \in PromptTexts :
        LET prompt == strip(text)
        IN  /\ IF prompt = ""
               THEN /\ gen_flashed' = "error"
                    /\ UNCHANGED <<LAST_GENERATED, generated>>
               ELSE LET image    == _generate_placeholder_image(prompt)
                        filename == "generated-" \o strftime(utcnow) \o ".png"
                    IN  /\ Len(generated) < MaxGenerated
                        /\ LAST_GENERATED' = [prompt      |-> Some(prompt),
                                              image_bytes |-> Some(png_bytes(image)),
                                              filename    |-> Some(filename)]
                        /\ gen_flashed' = "success"
                        /\ generated' = Append(generated,
                                               [prompt      |-> prompt,
                                                image_bytes |-> png_bytes(image),
                                                filename    |-> filename,
                                                second      |-> utcnow])
            /\ UNCHANGED <<utcnow, training_runs, served, submissions, train_form,
                           labeler_vars, call_vars>>

\* GET /download/generated/images.zip
download_generated_images ==
    /\ IF LAST_GENERATED.image_bytes = None
       THEN /\ gen_flashed' = "error"
            /\ served' = None
       ELSE /\ served' = Some([download_name |-> "generated-images.zip",
                               archive |-> DictSet(EmptyDict, LAST_GENERATED.filename[1],
                                                   LAST_GENERATED.image_bytes[1])])
            /\ UNCHANGED gen_flashed
    /\ UNCHANGED <<LAST_GENERATED, utcnow, training_runs, generated, submissions,
                   train_form, labeler_vars, call_vars>>

\* GET /download/generated/keywords.zip
download_generated_keywords ==
    /\ IF LAST_GENERATED.image_bytes = None \/ LAST_GENERATED.prompt = None
       THEN /\ gen_flashed' = "error"
            /\ served' = None
       ELSE LET stem == path_stem(LAST_GENERATED.filename[1])
            IN  /\ served' = Some([download_name |-> "generated-keywords.zip",
                                   archive |-> DictSet(EmptyDict, stem \o ".txt",
                                                       LAST_GENERATED.prompt[1])])
                /\ UNCHANGED gen_flashed
    /\ UNCHANGED <<LAST_GENERATED, utcnow, training_runs, generated, submissions,
                   train_form, labeler_vars, call_vars>>

\* Variant: the map keyed by path.name instead of path.stem.
RECURSIVE keyword_map_by_name(_, _)
keyword_map_by_name(keyword_files, map) ==
    IF keyword_files = <<>> THEN map
    ELSE keyword_map_by_name(Tail(keyword_files),
                             DictSet(map, path_name(Head(keyword_files)),
                                     Head(keyword_files)))

\* keyword_map = {path.stem: path for path in keyword_files}: a later path with the
\* same stem replaces an earlier one.
RECURSIVE keyword_map_of(_, _)
keyword_map_of(keyword_files, map) ==
    IF keyword_files = <<>> THEN map
    ELSE keyword_map_of(Tail(keyword_files),
                        DictSet(map, path_stem(Head(keyword_files)), Head(keyword_files)))

\* A run directory as mkdir(parents=True, exist_ok=True) leaves it: what is there
\* already stays.
EmptyRun == [images |-> EmptyDict, keywords |-> EmptyDict, metadata |-> None]

mkdir_run(runs, name) == IF name \in DOMAIN runs THEN runs[name] ELSE EmptyRun

\* Lines 138-151: the copy loop, from a run directory and the counts so far.
RECURSIVE copy_loop(_, _, _)
copy_loop(image_files, keyword_map, acc) ==
    IF image_files = <<>> THEN acc
    ELSE LET image_path == Head(image_files)
             stem       == path_stem(image_path)
             with_image == [acc EXCEPT !.run.images =
                               DictSet(@, path_name(image_path), read_bytes(image_path))]
         IN  copy_loop(Tail(image_files), keyword_map,
                 IF stem \in DOMAIN keyword_map
                 THEN [with_image EXCEPT
                          !.run.keywords = DictSet(@, stem \o ".txt",
                                                   read_bytes(keyword_map[stem])),
                          !.matched = @ + 1]
                 ELSE [with_image EXCEPT
                          !.missing = Append(@, path_name(image_path))])

\* POST /train. The handler reads the two file parts and no form field: whatever
\* else the request carries, a "descriptions" field included, has no effect.
train_model ==
    \E images_zip \in TrainUploads(TrainImageMembers, "images.zip"),
       keywords_zip \in TrainUploads(TrainKeywordMembers, "keywords.zip"),
       descriptions \in DescriptionFields :
        /\ train_form' = [descriptions |-> descriptions]
        /\ IF ~images_zip.present \/ images_zip.filename = ""
           THEN /\ gen_flashed' = "error"
                /\ UNCHANGED <<training_runs, submissions>>
           ELSE IF ~keywords_zip.present \/ keywords_zip.filename = ""
           THEN /\ gen_flashed' = "error"
                /\ UNCHANGED <<training_runs, submissions>>
           ELSE IF _extract_upload(images_zip).raised = "BadZipFile"
                   \/ _extract_upload(keywords_zip).raised = "BadZipFile"
           THEN /\ gen_flashed' = "error"
                /\ UNCHANGED <<training_runs, submissions>>
           ELSE LET image_files   == _collect_files(_extract_upload(images_zip).listing,
                                         {".png", ".jpg", ".jpeg", ".bmp", ".gif"})
                    keyword_files == _collect_files(_extract_upload(keywords_zip).listing,
                                         {".txt"})
                IN  IF image_files = <<>>
                    THEN /\ gen_flashed' = "error"
                         /\ UNCHANGED <<training_runs, submissions>>
                    ELSE IF keyword_files = <<>>
                    THEN /\ gen_flashed' = "error"
                         /\ UNCHANGED <<training_runs, submissions>>
                    ELSE LET keyword_map == keyword_map_of(keyword_files, EmptyDict)
                             run_dir     == strftime(utcnow)
                             copied      == copy_loop(image_files, keyword_map,
                                              [run     |-> mkdir_run(training_runs, run_dir),
                                               matched |-> 0,
                                               missing |-> <<>>])
                             run         == _save_training_metadata(copied.run, utcnow,
                                              <<>>, [missing_keywords |-> copied.missing])
                         IN  /\ Len(submissions) < MaxSubmissions
                             /\ training_runs' = DictSet(training_runs, run_dir, run)
                             /\ gen_flashed' = "success"
                             /\ submissions' = Append(submissions,
                                   [run_dir       |-> run_dir,
                                    image_files   |-> image_files,
                                    keyword_files |-> keyword_files,
                                    matched       |-> copied.matched,
                                    missing       |-> copied.missing,
                                    existed       |-> run_dir \in DOMAIN training_runs])
        /\ UNCHANGED <<LAST_GENERATED, utcnow, served, generated, labeler_vars, call_vars>>

\* The clock passes into the next second.
Tick ==
    /\ utcnow < MaxClock
    /\ utcnow' = utcnow + 1
    /\ UNCHANGED <<LAST_GENERATED, training_runs, gen_flashed, served, generated,
                   submissions, train_form, labeler_vars, call_vars>>

GeneratorInit ==
    /\ LAST_GENERATED = [prompt |-> None, image_bytes |-> None, filename |-> None]
    /\ utcnow = 0
    /\ training_runs = EmptyDict
    /\ gen_flashed = ""
    /\ served = None
    /\ generated = <<>>
    /\ submissions = <<>>
    /\ train_form = [descriptions |-> None]

(***************************************************************************)
(* The two applications as state machines: each handles one request at a   *)
(* time. They are separate processes that share no state, and inside the   *)
(* generator the image requests and the train requests share only the      *)
(* clock, so each part is also given a specification of its own.           *)
(***************************************************************************)
MatcherIdle == [images |-> <<>>, keywords |-> <<>>, called |-> FALSE, labels |-> EmptyDict]

\* No direct call of the importers: no upload, no results.
ImporterIdle == [upload |-> None, collected |-> None, loaded |-> None]

\* No direct call of the synthesis.
SeederIdle == [prompt |-> None, seed |-> None, image |-> None]

Init ==
    /\ LabelerInit
    /\ GeneratorInit
    /\ matcher = MatcherIdle
    /\ importer = ImporterIdle
    /\ seeder = SeederIdle

LabelerNext == upload_dataset \/ upload_keywords \/ auto_label \/ label_image

GenerateNext ==
    generate_image \/ download_generated_images \/ download_generated_keywords \/ Tick

TrainNext == train_model \/ Tick

Next == LabelerNext \/ GenerateNext \/ TrainNext

\* The repository as written.
Spec == Init /\ [][Next]_vars

\* The labeler as written.
SpecLabeler == Init /\ [][LabelerNext]_vars

\* The labeler module with `import tempfile`, which generator_app/app.py has at
\* line 5 and labeler_app/app.py lacks.
upload_dataset_tempfile == upload_dataset_by(loaded_with_tempfile)

NextTempfile == upload_dataset_tempfile \/ upload_keywords \/ auto_label \/ label_image

SpecTempfile == Init /\ [][NextTempfile]_vars

(***************************************************************************)
(* The labeler under the server app.run starts (line 246), which handles   *)
(* each request in a thread of its own: the handlers of two requests in    *)
(* flight interleave between their reads and writes of APP_STATE, which no *)
(* lock protects. A label request is three steps (its reads and guards,    *)
(* lines 104-116; its writes, 118-121; its save, 123-126) and an           *)
(* upload-dataset request two (the assignment of line 70; the reset of     *)
(* line 74). The module is the one with `import tempfile`.                 *)
(***************************************************************************)
\* The uploads of the requests that overlap: none, and archives of one and of
\* two images.
ThreadUploads ==
    {u \in Uploads : ~u.present \/ u.members \in {<<"cat.png">>, <<"cat.png", "Dog.JPG">>}}

all_idle == \A t \in Threads : threads[t] = Idle

\* Thread t takes a request; it overlaps the request another thread is handling.
accepts(t) ==
    /\ threads[t] = Idle
    /\ overlapped' = (overlapped \/ \E u \in Threads \ {t} : threads[u] # Idle)

\* Variant: line 121 writes the index it read.
not_advanced(index) == index

\* Line 121: the cursor the request writes, from the one it read.
advanced(index) == index + 1

\* POST /label, lines 104-116: the reads of APP_STATE and the three guards.
label_start(t) ==
    LET images   == APP_STATE.images
        keywords == APP_STATE.keywords
        index    == APP_STATE.label_index
    IN  /\ accepts(t)
        /\ IF images = <<>> \/ keywords = <<>>
           THEN flashed' = "error" /\ UNCHANGED threads
           ELSE IF index >= Len(images)
           THEN flashed' = "success" /\ UNCHANGED threads
           ELSE \E selections \in {<<>>, keywords} :  \* no box checked, or all
                  /\ threads' = [threads EXCEPT ![t] =
                                    [pc |-> "label_record", images |-> images,
                                     index |-> index, selections |-> selections]]
                  /\ UNCHANGED flashed
        /\ UNCHANGED <<APP_STATE, labels_dir, walk, manual_writes, call_vars,
                       generator_vars>>

\* POST /label, lines 118-121: the selection and the cursor are written, from the
\* images and the index read before.
label_record(t) ==
    /\ threads[t].pc = "label_record"
    /\ LET th       == threads[t]
           filename == th.images[th.index + 1][1]
       IN  /\ APP_STATE' = [APP_STATE EXCEPT
                              !.manual_labels = DictSet(@, filename, th.selections),
                              !.label_index = advanced(th.index)]
           /\ walk' = Append(walk, th.selections)
           /\ threads' = [threads EXCEPT ![t] = [pc |-> "label_finish",
                                                 images |-> th.images]]
    /\ UNCHANGED <<labels_dir, flashed, manual_writes, overlapped, call_vars,
                   generator_vars>>

\* POST /label, lines 123-128: the cursor is read again and the labels are saved
\* if it is at the end of the images read before.
label_finish(t) ==
    /\ threads[t].pc = "label_finish"
    /\ IF walk_finished([label_index |-> APP_STATE.label_index,
                         images |-> threads[t].images])
       THEN /\ labels_dir' = _save_labels(labels_dir, "manual-labels",
                                          APP_STATE.manual_labels)
            /\ manual_writes' = manual_writes + 1
            /\ flashed' = "success"
       ELSE /\ UNCHANGED <<labels_dir, manual_writes>>
            /\ flashed' = ""
    /\ threads' = [threads EXCEPT ![t] = Idle]
    /\ UNCHANGED <<APP_STATE, walk, overlapped, call_vars, generator_vars>>

\* POST /upload-dataset, lines 65-73: the guards and the assignment of the images.
upload_start(t) ==
    /\ accepts(t)
    /\ \E upload \in ThreadUploads :
          IF ~upload.present \/ upload.filename = ""
             \/ loaded_with_tempfile[upload].raised # ""
          THEN flashed' = "error" /\ UNCHANGED <<APP_STATE, threads>>
          ELSE /\ APP_STATE' = [APP_STATE EXCEPT
                                  !.images = loaded_with_tempfile[upload].images]
               /\ threads' = [threads EXCEPT ![t] = [pc |-> "upload_reset"]]
               /\ UNCHANGED flashed
    /\ UNCHANGED <<labels_dir, walk, manual_writes, call_vars, generator_vars>>

\* POST /upload-dataset, lines 74-76: the reset.
upload_reset(t) ==
    /\ threads[t].pc = "upload_reset"
    /\ APP_STATE' = reset_manual_labels(APP_STATE)
    /\ flashed' = "success"
    /\ walk' = <<>>
    /\ manual_writes' = 0
    /\ threads' = [threads EXCEPT ![t] = Idle]
    /\ UNCHANGED <<labels_dir, overlapped, call_vars, generator_vars>>

\* The keyword list is uploaded while no other request is in flight.
upload_keywords_alone == all_idle /\ upload_keywords

NextThreads ==
    \/ upload_keywords_alone
    \/ \E t \in Threads :
          \/ label_start(t)
          \/ label_record(t)
          \/ label_finish(t)
          \/ upload_start(t)
          \/ upload_reset(t)

SpecThreads == Init /\ [][NextThreads]_vars

\* The generator: its image requests, and its train requests.
SpecGenerate == Init /\ [][GenerateNext]_vars

SpecTrain == Init /\ [][TrainNext]_vars

(***************************************************************************)
(* _auto_label called directly, on every pair of bounded argument lists.   *)
(***************************************************************************)
\* Longest argument list of a direct call.
MaxMatcherLen == 2

MatcherFilenames == {"cat.png", "Dog.JPG", "a"}

MatcherKeywords == {"cat", "DOG", "A", ""}

RECURSIVE SeqsUpTo(_, _)
SeqsUpTo(S, n) ==
    IF n = 0 THEN {<<>>}
    ELSE LET shorter == SeqsUpTo(S, n - 1)
         IN  shorter \cup {Append(q, x) : q \in shorter, x \in S}

MatcherInit ==
    /\ LabelerInit
    /\ GeneratorInit
    /\ matcher \in [images   : SeqsUpTo({<<f, f>> : f \in MatcherFilenames}, MaxMatcherLen),
                    keywords : SeqsUpTo(MatcherKeywords, MaxMatcherLen),
                    called   : {FALSE},
                    labels   : {EmptyDict}]
    /\ importer = ImporterIdle
    /\ seeder = SeederIdle

call_auto_label ==
    /\ ~matcher.called
    /\ matcher' = [matcher EXCEPT !.called = TRUE,
                                  !.labels = _auto_label(matcher.images, matcher.keywords)]
    /\ UNCHANGED <<labeler_vars, generator_vars, importer, seeder>>

SpecMatcher == MatcherInit /\ [][call_auto_label]_vars

(***************************************************************************)
(* _collect_files (on what _extract_upload leaves) and                      *)
(* _load_images_from_upload called directly, on every bounded archive.      *)
(***************************************************************************)
\* Most members of an archive handed to a direct call.
MaxImport == 3

ImportMembers == <<"cat.png", "dog.jpg", "readme.txt", "Pic.JPEG", "sub/cat.png">>

\* upload.filename is the name the client gave the file it sent.
ImportFilenames == {"d.zip", "d.png"}

ImportUploads ==
    {[present |-> TRUE, filename |-> f, is_zip |-> TRUE, members |-> m] :
        f \in ImportFilenames,
        m \in {a \in SubLists(ImportMembers) : Len(a) <= MaxImport}}

ImporterInit ==
    /\ LabelerInit
    /\ GeneratorInit
    /\ matcher = MatcherIdle
    /\ seeder = SeederIdle
    /\ importer \in [upload : {Some(u) : u \in ImportUploads},
                     collected : {None}, loaded : {None}]

\* Lines 114 and 120 of the generator, on one upload.
call_collect_files ==
    /\ importer.upload # None
    /\ importer.collected = None
    /\ importer' = [importer EXCEPT !.collected =
                       Some(_collect_files(_extract_upload(importer.upload[1]).listing,
                                           {".png", ".jpg", ".jpeg", ".bmp", ".gif"}))]
    /\ UNCHANGED <<labeler_vars, generator_vars, matcher, seeder>>

\* Line 70 of the labeler, on one upload.
call_load_images ==
    /\ importer.upload # None
    /\ importer.loaded = None
    /\ importer' = [importer EXCEPT !.loaded =
                       Some(_load_images_from_upload(importer.upload[1], labeler_imports))]
    /\ UNCHANGED <<labeler_vars, generator_vars, matcher, seeder>>

SpecImport == ImporterInit /\ [][call_collect_files \/ call_load_images]_vars

(***************************************************************************)
(* _seed_from_prompt and _generate_placeholder_image called directly, on   *)
(* every bounded prompt.                                                   *)
(***************************************************************************)
\* Longest prompt of a direct call.
MaxPromptLen == 3

\* Characters of the prompts: their code points add up to multiples of 255
\* ("A~@": 65 + 126 + 64) and to sums on both sides of them.
SeedChars == {" ", "@", "A", "a", "~"}

RECURSIVE StringsUpTo(_, _)
StringsUpTo(chars, n) ==
    IF n = 0 THEN {""}
    ELSE LET shorter == StringsUpTo(chars, n - 1)
         IN  shorter \cup {str \o c : str \in shorter, c \in chars}

SeederInit ==
    /\ LabelerInit
    /\ GeneratorInit
    /\ matcher = MatcherIdle
    /\ importer = ImporterIdle
    /\ seeder \in [prompt : {Some(p) : p \in StringsUpTo(SeedChars, MaxPromptLen)},
                   seed : {None}, image : {None}]

call_seed_from_prompt ==
    /\ seeder.prompt # None
    /\ seeder.seed = None
    /\ seeder' = [seeder EXCEPT !.seed = Some(_seed_from_prompt(seeder.prompt[1]))]
    /\ UNCHANGED <<labeler_vars, generator_vars, matcher, importer>>

call_generate_placeholder_image ==
    /\ seeder.prompt # None
    /\ seeder.image = None
    /\ seeder' = [seeder EXCEPT
                     !.image = Some(_generate_placeholder_image(seeder.prompt[1]))]
    /\ UNCHANGED <<labeler_vars, generator_vars, matcher, importer>>

SpecSeed == SeederInit /\ [][call_seed_from_prompt \/ call_generate_placeholder_image]_vars

(***************************************************************************)
(* Properties of the manual labeling walk.                                 *)
(***************************************************************************)
images_loaded == APP_STATE.images

cursor == APP_STATE.label_index

\* C1: after any sequence of labeler requests the manual-labeling cursor is
\* within 0 .. len(images).
C1_CursorInRange == 0 <= cursor /\ cursor <= Len(images_loaded)

\* The cursor at the end of a dataset of two images, after two label requests.
C1_Witness ==
    /\ Len(images_loaded) = 2
    /\ cursor = 2
    /\ Len(walk) = 2

\* A step of upload-dataset that loads the archive it was given.
dataset_loaded_step ==
    /\ flashed' = "success"
    /\ APP_STATE'.keywords = APP_STATE.keywords
    /\ labels_dir' = labels_dir
    /\ upload_dataset_tempfile

walker_reset_after == APP_STATE'.label_index = 0 /\ APP_STATE'.manual_labels = EmptyDict

rejected_upload(upload) == ~upload.present \/ upload.filename = "" \/ ~upload.is_zip

\* C17: an upload-dataset request that is rejected leaves images, keywords,
\* manual_labels and the cursor as they were (and with them the walk in progress
\* and the label files).
C17_RejectedUploadChangesNothing ==
    [][\A upload \in {u \in Uploads : rejected_upload(u)} :
          upload_dataset_request(loaded_with_tempfile, upload) =>
              /\ flashed' = "error"
              /\ APP_STATE' = APP_STATE
              /\ walk' = walk
              /\ labels_dir' = labels_dir]_vars

\* An upload was rejected in the middle of a walk over two images: the cursor is
\* still on the second image and the first selection is still recorded.
C17_Witness ==
    /\ flashed = "error"
    /\ APP_STATE.keywords # <<>>
    /\ Len(images_loaded) = 2
    /\ cursor = 1
    /\ Len(walk) = 1
    /\ Cardinality(DOMAIN APP_STATE.manual_labels) = 1

\* What C18 concludes, of the states where no request is in flight: the cursor is
\* within the images and no advance was lost (the cursor is the number of label
\* requests accepted since the dataset was loaded).
no_lost_advance == cursor <= Len(images_loaded) /\ cursor = Len(walk)

walker_complete == Len(images_loaded) > 0 /\ cursor = Len(images_loaded)

\* C5: within one dataset load the manual-labels file is written exactly once, by
\* the label request that moves the cursor from len(images)-1 to len(images); a
\* label request made while the walker is complete writes nothing and leaves the
\* cursor and manual_labels unchanged.
C5_WrittenOnceOnCompletion ==
    [][/\ manual_writes' = (IF walker_complete' THEN 1 ELSE 0)
       /\ (manual_writes' # manual_writes /\ manual_writes' # 0) =>
            /\ label_image
            /\ cursor = Len(images_loaded) - 1
            /\ cursor' = Len(images_loaded')
            /\ images_loaded' = images_loaded
            /\ labels_dir'["manual-labels"] = APP_STATE'.manual_labels
       /\ (label_image /\ walker_complete) =>
            UNCHANGED <<APP_STATE, labels_dir, manual_writes>>
       /\ (labels_dir' # labels_dir /\ ~auto_label) =>
            manual_writes' = manual_writes + 1]_vars

\* The walk over two images with different names is complete and its file, with
\* both selections, was written once.
C5_Witness ==
    /\ walker_complete
    /\ Len(walk) = 2
    /\ manual_writes = 1
    /\ Cardinality(DOMAIN labels_dir["manual-labels"]) = 2
    /\ labels_dir["manual-labels"] = APP_STATE.manual_labels

(***************************************************************************)
(* Properties of the keyword matcher.                                      *)
(***************************************************************************)
UpperCase == "ABCDEFGHIJKLMNOPQRSTUVWXYZ"

LowerCase == "abcdefghijklmnopqrstuvwxyz"

\* Two characters that are the same up to the case of a letter.
same_letter(a, b) ==
    \/ a = b
    \/ \E k \in 1..Len(UpperCase) :
          {a, b} = {SubSeq(UpperCase, k, k), SubSeq(LowerCase, k, k)}

\* needle occurs in hay at some position, up to the case of the letters: what
\* "the lowercase form of kw is a substring of the lowercase form of filename"
\* says of two ASCII strings.
occurs_in(needle, hay) ==
    \E i \in 1..(Len(hay) - Len(needle) + 1) :
        \A j \in 1..Len(needle) :
            same_letter(SubSeq(needle, j, j), SubSeq(hay, i + j - 1, i + j - 1))

matches(kw, filename) == occurs_in(kw, filename)

\* The j-th least element of a set of numbers.
nth_least(P, j) == CHOOSE p \in P : Cardinality({q \in P : q < p}) = j - 1

\* C6: _auto_label maps each filename f to exactly the subsequence of the keyword
\* list, in input order, of the keywords whose lowercase form is a substring of
\* the lowercase form of f.
C6_MatcherIsSubstringFilter ==
    matcher.called =>
        /\ DOMAIN matcher.labels = {img[1] : img \in Range(matcher.images)}
        /\ \A f \in DOMAIN matcher.labels :
              LET kws == matcher.keywords
                  P   == {p \in 1..Len(kws) : matches(kws[p], f)}
              IN  /\ Len(matcher.labels[f]) = Cardinality(P)
                  /\ \A j \in 1..Cardinality(P) :
                        matcher.labels[f][j] = kws[nth_least(P, j)]

\* A call where a keyword matches only through case folding, in second place of
\* the keyword list, after one that does not match.
C6_Witness ==
    /\ matcher.called
    /\ matcher.keywords = <<"cat", "DOG">>
    /\ matcher.images = <<<<"Dog.JPG", "Dog.JPG">>, <<"cat.png", "cat.png">>>>
    /\ matcher.labels["Dog.JPG"] = <<"DOG">>
    /\ matcher.labels["cat.png"] = <<"cat">>

auto_labels_of(images, keywords) ==
    [f \in {img[1] : img \in Range(images)} |->
        SelectSeq(keywords, LAMBDA kw : matches(kw, f))]

\* What every step of auto-label does to manual_labels: nothing, or an entry for
\* each filename of the dataset. (Implied by auto_label, and cheaper to evaluate.)
auto_label_leaves ==
    \/ APP_STATE' = APP_STATE
    \/ DOMAIN APP_STATE'.manual_labels = {img[1] : img \in Range(images_loaded)}

\* C15: auto-label writes the auto-labels file if and only if both the image list
\* and the keyword list are non-empty. When either is empty the request is
\* rejected, no file is written and the session state is unchanged; when it
\* succeeds the cursor, the images and the keywords are unchanged and the file
\* holds the labels of the current dataset alone, whatever it held before.
C15_AutoLabelWritesIffBothLoaded ==
    [][(auto_label_leaves /\ auto_label) =>
        IF images_loaded = <<>> \/ APP_STATE.keywords = <<>>
        THEN /\ flashed' = "error"
             /\ labels_dir' = labels_dir
             /\ APP_STATE' = APP_STATE
        ELSE /\ flashed' = "success"
             /\ DOMAIN labels_dir' = DOMAIN labels_dir \cup {"auto-labels"}
             /\ labels_dir'["auto-labels"]
                   = auto_labels_of(images_loaded, APP_STATE.keywords)
             /\ \A name \in DOMAIN labels_dir \ {"auto-labels"} :
                   labels_dir'[name] = labels_dir[name]
             /\ APP_STATE'.label_index = APP_STATE.label_index
             /\ APP_STATE'.images = APP_STATE.images
             /\ APP_STATE'.keywords = APP_STATE.keywords]_vars

\* Auto-label ran in the middle of a walk over a dataset of two images, loaded
\* after a walk over a dataset of one image had been completed and saved: the
\* cursor is where it was and the file holds the labels of both images.
C15_Witness ==
    /\ flashed = "success"
    /\ Len(images_loaded) = 2
    /\ cursor = 1
    /\ Len(walk) = 1
    /\ DOMAIN labels_dir = {"auto-labels", "manual-labels"}
    /\ DOMAIN labels_dir["manual-labels"] = {"cat.png"}
    /\ DOMAIN labels_dir["auto-labels"] = {"cat.png", "Dog.JPG"}
    /\ labels_dir["auto-labels"] = APP_STATE.manual_labels
    /\ Len(labels_dir["auto-labels"]["Dog.JPG"]) = 1

(***************************************************************************)
(* Properties of the archive importers.                                    *)
(***************************************************************************)
\* The path ends in "." and the extension, up to the case of its letters.
has_extension(path, ext) ==
    LET n == Len(path)
        k == Len(ext)
    IN  /\ n > k
        /\ SubSeq(path, n - k, n - k) = "."
        /\ \A j \in 1..k :
              same_letter(SubSeq(path, n - k + j, n - k + j), SubSeq(ext, j, j))

\* The entries of an archive whose extension is in the allow-list.
allow_listed(members) ==
    {m \in Range(members) :
        \E ext \in {"png", "jpg", "jpeg", "bmp", "gif"} : has_extension(m, ext)}

\* C11 as stated: importing an archive yields exactly its entries whose extension,
\* compared case-insensitively, is in the allow-list: what _collect_files gives
\* for the generator, and what a successful upload-dataset loads for the labeler.
C11_ImportsAllowListedEntries ==
    LET entries == allow_listed(importer.upload[1].members)
    IN  /\ importer.collected # None =>
              Range(importer.collected[1]) = entries
        /\ importer.loaded # None =>
              /\ importer.loaded[1].raised = ""
              /\ {img[2] : img \in Range(importer.loaded[1].images)} = entries

\* The part of C11 that holds: the generator's import of an upload whose own
\* filename has no allow-listed extension.
C11_CollectedWhenUploadNotNamedAsImage ==
    (importer.collected # None /\ allow_listed(<<importer.upload[1].filename>>) = {}) =>
        Range(importer.collected[1]) = allow_listed(importer.upload[1].members)

(***************************************************************************)
(* Properties of the generator.                                            *)
(***************************************************************************)
\* C13: for every non-empty prompt the seed lies in 1..255, the background colour
\* is (seed, 255 - seed, (seed * 2) mod 255), and each of its components lies in
\* 0..255.
C13_SeedAndColourInRange ==
    seeder.prompt # None /\ seeder.prompt # Some("") =>
        /\ seeder.seed # None => seeder.seed[1] \in 1..255
        /\ seeder.image # None =>
              \A k \in 1..3 : seeder.image[1].background[k] \in 0..255
        /\ (seeder.seed # None /\ seeder.image # None) =>
              LET seed == seeder.seed[1]
              IN  seeder.image[1].background = <<seed, 255 - seed, (seed * 2) % 255>>

\* A prompt whose code points add up to 255: the seed is 1, not 0.
C13_Witness ==
    /\ seeder.prompt = Some("A~@")
    /\ seeder.seed = Some(1)
    /\ seeder.image # None
    /\ seeder.image[1].background = <<1, 254, 2>>

downloadable(g) ==
    /\ LAST_GENERATED.image_bytes = Some(g.image_bytes)
    /\ LAST_GENERATED.filename = Some(g.filename)

same_prompt_pairs ==
    {p \in (1..Len(generated)) \X (1..Len(generated)) :
        p[1] < p[2] /\ generated[p[1]].prompt = generated[p[2]].prompt}

\* C8 as stated: the same prompt generated twice gives two identical images with
\* two distinct filenames, and both stay downloadable.
C8_DistinctNamesBothDownloadable ==
    \A p \in same_prompt_pairs :
        /\ generated[p[1]].image_bytes = generated[p[2]].image_bytes
        /\ generated[p[1]].filename # generated[p[2]].filename
        /\ downloadable(generated[p[1]])
        /\ downloadable(generated[p[2]])

\* C8, amended: the same prompt generated twice gives two identical images; their
\* filenames differ exactly when the two requests fall in different UTC seconds;
\* and only the most recent generation is downloadable: the last-generated slot
\* holds its prompt, bytes and filename, whatever was generated before.
C8_SameImageLastDownloadable ==
    /\ \A p \in same_prompt_pairs :
          /\ generated[p[1]].image_bytes = generated[p[2]].image_bytes
          /\ (generated[p[1]].filename # generated[p[2]].filename)
                <=> (generated[p[1]].second # generated[p[2]].second)
    /\ generated # <<>> =>
          LET last == generated[Len(generated)]
          IN  /\ LAST_GENERATED.prompt = Some(last.prompt)
              /\ downloadable(last)
              /\ \A i \in 1..Len(generated) :
                    downloadable(generated[i]) =>
                        /\ generated[i].filename = last.filename
                        /\ generated[i].image_bytes = last.image_bytes

\* "sunset" generated in second 0 and again in second 1, and the images archive
\* downloaded after that: it holds the second file.
C8_Witness ==
    /\ Len(generated) = 2
    /\ generated[1].prompt = "sunset" /\ generated[2].prompt = "sunset"
    /\ generated[1].second = 0 /\ generated[2].second = 1
    /\ served # None
    /\ DOMAIN served[1].archive = {"generated-20240101-000001.png"}

slot_empty ==
    LAST_GENERATED = [prompt |-> None, image_bytes |-> None, filename |-> None]

\* The slot holds the prompt, bytes and filename of the generation g.
slot_holds(g) ==
    LAST_GENERATED = [prompt      |-> Some(g.prompt),
                      image_bytes |-> Some(g.image_bytes),
                      filename    |-> Some(g.filename)]

\* A "generated-<timestamp>.png" filename without its ".png".
without_png(filename) == SubSeq(filename, 1, Len(filename) - 4)

\* C16: the last-generated slot is empty until the first successful generate and
\* from then on holds the prompt, bytes and filename of the most recent one; a
\* rejected generate leaves it unchanged; both downloads are rejected while it is
\* empty; the images download serves the slot's file and the keywords download
\* the slot's prompt under the stem of that file's name.
C16_SlotHoldsMostRecentGeneration ==
    /\ [](IF generated = <<>> THEN slot_empty ELSE slot_holds(generated[Len(generated)]))
    /\ [][/\ (generate_image /\ gen_flashed' = "error") => LAST_GENERATED' = LAST_GENERATED
          /\ ((download_generated_images \/ download_generated_keywords) /\ slot_empty) =>
                (gen_flashed' = "error" /\ served' = None)
          /\ (download_generated_images /\ ~slot_empty) =>
                LET last == generated[Len(generated)]
                IN  served' = Some([download_name |-> "generated-images.zip",
                                    archive |-> DictSet(EmptyDict, last.filename,
                                                        last.image_bytes)])
          /\ (download_generated_keywords /\ ~slot_empty) =>
                LET last == generated[Len(generated)]
                IN  served' = Some([download_name |-> "generated-keywords.zip",
                                    archive |-> DictSet(EmptyDict,
                                                        without_png(last.filename) \o ".txt",
                                                        last.prompt)])]_vars

\* The keywords archive downloaded after "sunset" and then "dawn" were generated:
\* it carries "dawn" under the stem of the second file's name.
C16_Witness ==
    /\ Len(generated) = 2
    /\ generated[1].prompt = "sunset"
    /\ generated[2].prompt = "dawn"
    /\ generated[2].second = 1
    /\ slot_holds(generated[2])
    /\ served # None
    /\ served[1].download_name = "generated-keywords.zip"
    /\ served[1].archive = DictSet(EmptyDict, "generated-20240101-000001.txt", "dawn")

\* C9 as stated: a run directory is created by exactly one train submission; two
\* successful submissions always get distinct run directories.
C9_RunDirsNeverShared ==
    /\ \A i \in 1..Len(submissions) : ~submissions[i].existed
    /\ \A i, j \in 1..Len(submissions) :
          i # j => submissions[i].run_dir # submissions[j].run_dir

\* C12 as stated: every rejected train submission (malformed descriptions JSON, a
\* missing upload, an unreadable archive, no image or no keyword file found)
\* creates no run directory and writes no metadata file: the run directories are
\* as they were.
C12_RejectedCreatesNothing ==
    [][(/\ train_model
        /\ \/ gen_flashed' = "error"
           \/ train_form'.descriptions = <<"{bad">>)
          => training_runs' = training_runs]_vars

\* The part of C12 that holds: the submissions the handler rejects leave the run
\* directories as they were.
C12_HandlerRejectionsCreateNothing ==
    [][(train_model /\ gen_flashed' = "error") => training_runs' = training_runs]_vars

keyword_stems(sub) == {path_stem(kf) : kf \in Range(sub.keyword_files)}

matched_positions(sub) ==
    {k \in 1..Len(sub.image_files) : path_stem(sub.image_files[k]) \in keyword_stems(sub)}

\* What the claim says of every submission: each image is counted in matched if a
\* keyword file has its stem and named in missing if not.
matched_or_missing(sub) ==
    /\ sub.matched = Cardinality(matched_positions(sub))
    /\ \A k \in 1..Len(sub.image_files) :
          (path_name(sub.image_files[k]) \in Range(sub.missing))
             <=> (k \notin matched_positions(sub))
    /\ sub.matched + Len(sub.missing) = Len(sub.image_files)

keyword_files_in(run_dir) == DOMAIN training_runs[run_dir].keywords

\* C10 as stated: every image is counted in matched iff a keyword file with its
\* stem exists and is in missing otherwise, matched + len(missing) is the number
\* of images, and matched is the number of keyword files copied into the run
\* directory.
C10_MatchedIsFilesCopied ==
    /\ \A i \in 1..Len(submissions) : matched_or_missing(submissions[i])
    /\ submissions # <<>> =>
          LET sub == submissions[Len(submissions)]
          IN  sub.matched = Cardinality(keyword_files_in(sub.run_dir))

\* C10, amended: every image is counted in matched iff a keyword file with its
\* stem was collected and is named in missing otherwise, so matched +
\* len(missing) is the number of images; matched counts images, and the keyword
\* files copied are one per distinct matched stem: a run directory the submission
\* created holds exactly those, at most matched of them.
C10_MatchedIsImagesMatched ==
    /\ \A i \in 1..Len(submissions) : matched_or_missing(submissions[i])
    /\ submissions # <<>> =>
          LET sub    == submissions[Len(submissions)]
              copies == {path_stem(sub.image_files[k]) \o ".txt" :
                            k \in matched_positions(sub)}
          IN  /\ copies \subseteq keyword_files_in(sub.run_dir)
              /\ ~sub.existed =>
                    /\ keyword_files_in(sub.run_dir) = copies
                    /\ Cardinality(copies) <= sub.matched

\* a.png and sub/a.jpg submitted with a.txt: both matched, one keyword file copied.
C10_Witness ==
    /\ Len(submissions) = 1
    /\ submissions[1].image_files = <<"a.png", "sub/a.jpg">>
    /\ submissions[1].matched = 2
    /\ submissions[1].missing = <<>>
    /\ keyword_files_in(submissions[1].run_dir) = {"a.txt"}

====
